---- MODULE Spec2Model ----
(***************************************************************************)
(* Model of netsapiens_asyncio/messages.py: the MessageAPI client          *)
(* (send_message, get_messages) running as coroutines on one event loop,   *)
(* together with the NetsapiensAPI authentication collaborator and the     *)
(* vendor's HTTP server as its environment.                                *)
(*                                                                         *)
(* Python values are represented as follows.                               *)
(*   Optional[T]      None is <<>>, a supplied value v is <<v>>.            *)
(*   session ids      sequences of one-character strings, so that the      *)
(*                    regular expression is computed character by          *)
(*                    character.                                           *)
(*   other strings    TLA+ strings; "" is the empty string.                *)
(*   f-string URLs    the sequence of the parts between the "/".           *)
(*   exceptions       records of the class, the fixed text of the message, *)
(*                    the values interpolated in it and the __cause__.     *)
(***************************************************************************)
EXTENDS Integers, Sequences, FiniteSets, TLC

\* Number of coroutine slots: calls that may exist at the same time.
NumCalls == 2

\* Number of tokens the auth endpoint issues during a run.
MaxTokens == 2

\* The {32,} of the messagesession pattern.
MinSessionLen == 32

VARIABLES
    token_data,   \* NetsapiensAPI.token_data: the cached TokenData, None before login
    expired,      \* NetsapiensAPI: whether the cached token has expired
    generation,   \* number of tokens the vendor's auth endpoint has issued
    auth_data,    \* MessageAPI.auth_data  (self.auth_data)
    base_url,     \* MessageAPI.base_url   (self.base_url)
    pc,           \* per call: where the coroutine stands
    args,         \* per call: the arguments it was called with
    fresh,        \* per call: the value its await check_token_expiry() returned
    request,      \* per call: the HTTP request it handed to aiohttp
    response,     \* per call: what came back from the network
    result,       \* per call: the value returned or the exception raised
    trace         \* per call: the external calls it made, in order

vars == << token_data, expired, generation, auth_data, base_url,
           pc, args, fresh, request, response, result, trace >>

Calls == 1 .. NumCalls

None == << >>

Some(v) == << v >>

----------------------------------------------------------------------------
(* Python's truth value of an optional argument: None, "" and 0 are false. *)

TruthyStr(o) == o # None /\ o[1] # ""

TruthySeq(o) == o # None /\ Len(o[1]) > 0

TruthyInt(o) == o # None /\ o[1] # 0

----------------------------------------------------------------------------
(* re.match(r"^[a-zA-Z0-9_]{32,}$", messagesession)                        *)

WordChars ==
    { "a", "b", "c", "d", "e", "f", "g", "h", "i", "j", "k", "l", "m",
      "n", "o", "p", "q", "r", "s", "t", "u", "v", "w", "x", "y", "z",
      "A", "B", "C", "D", "E", "F", "G", "H", "I", "J", "K", "L", "M",
      "N", "O", "P", "Q", "R", "S", "T", "U", "V", "W", "X", "Y", "Z",
      "0", "1", "2", "3", "4", "5", "6", "7", "8", "9", "_" }

\* Without re.MULTILINE, "$" matches at the end of the string and also just
\* before a newline that ends the string.
ReMatch(s) ==
    LET core == IF Len(s) > 0 /\ s[Len(s)] = "\n"
                THEN SubSeq(s, 1, Len(s) - 1)
                ELSE s
    IN  \/ /\ Len(s) >= MinSessionLen
           /\ \A i \in 1 .. Len(s) : s[i] \in WordChars
        \/ /\ Len(core) >= MinSessionLen
           /\ \A i \in 1 .. Len(core) : core[i] \in WordChars

----------------------------------------------------------------------------
(* str(n) for an int                                                       *)

Digit(d) ==
    CASE d = 0 -> "0" [] d = 1 -> "1" [] d = 2 -> "2" [] d = 3 -> "3"
      [] d = 4 -> "4" [] d = 5 -> "5" [] d = 6 -> "6" [] d = 7 -> "7"
      [] d = 8 -> "8" [] d = 9 -> "9"

RECURSIVE NatToStr(_)
NatToStr(n) ==
    IF n < 10 THEN << Digit(n) >>
    ELSE NatToStr(n \div 10) \o << Digit(n % 10) >>

IntToStr(n) == IF n < 0 THEN << "-" >> \o NatToStr(0 - n) ELSE NatToStr(n)

----------------------------------------------------------------------------
(* Values                                                                  *)

\* A Python str, list or tuple passed as `destination`.
PyStr(s) == [kind |-> "str", val |-> << s >>]

PyList(xs) == [kind |-> "list", val |-> xs]

PyTuple(xs) == [kind |-> "tuple", val |-> xs]

\* An exception object: its class, the fixed text of its message, the status
\* and body interpolated into the message, and its __cause__.
Exc(type, text, status, body, cause) ==
    [type |-> type, text |-> text, status |-> status, body |-> body,
     cause |-> cause]

\* aiohttp.ClientError and the subclasses the transport raises.
ClientErrorClasses == { "ClientError", "ClientOSError", "ServerDisconnectedError" }

IsClientError(type) == type \in ClientErrorClasses

\* The exception the transport raised: an aiohttp.ClientError subclass, or
\* asyncio.TimeoutError, which is not one.
TransportExc(type) == Exc(type, "", None, None, None)

\* A call's outcome.
Returned(doc) == [returned |-> Some(doc), raised |-> None]

Raised(e) == [returned |-> None, raised |-> Some(e)]

NoResult == [returned |-> None, raised |-> None]

\* response.json() for the bodies the server sends with status 200.
JsonLoads(body) ==
    CASE body = "{\"id\": 7}" -> [id |-> 7]
      [] body = "[]" -> << >>
      [] OTHER -> << body >>

----------------------------------------------------------------------------
(* MessageAPI.__init__                                                     *)

SelfDomain == "~"

SelfUser == "~"

\* f"{self.base_url}": the text of the base URL, "None" when it is None.
Fmt(b) == IF b = None THEN "None" ELSE b[1]

\* self.base_url = self.auth_data.get("api_url") if self.auth_data else None
InitialBaseUrl(td) == IF td = None THEN None ELSE Some(td[1].api_url)

----------------------------------------------------------------------------
(* send_message, from the return of check_token_expiry() to session.post() *)

\* The instance after "self.auth_data = await ..." and "self.base_url = ...".
RefreshedClientStaleUrl(td) == [auth_data |-> Some(td), base_url |-> base_url]

RefreshedClientStaleToken(td) ==
    [auth_data |-> auth_data, base_url |-> Some(td.api_url)]

RefreshedClient(td) == [auth_data |-> Some(td), base_url |-> Some(td.api_url)]

\* "if messagesession:" followed by a failed re.match
SessionRejected(a) ==
    TruthySeq(a.messagesession) /\ ~ReMatch(a.messagesession[1])

SendUrl(client, a) ==
    IF TruthySeq(a.messagesession)
    THEN << Fmt(client.base_url), "ns-api", "v2", "domains", SelfDomain,
            "users", SelfUser, "messagesessions", a.messagesession[1],
            "messages" >>
    ELSE << Fmt(client.base_url), "ns-api", "v2", "domains", SelfDomain,
            "users", SelfUser, "messages" >>

\* destination if isinstance(destination, list) else [destination]
NormalizeDestinationAlwaysWrap(d) == PyList(<< d >>)

NormalizeDestination(d) == IF d.kind = "list" THEN d ELSE PyList(<< d >>)

SendPayloadKeysIfSupplied(a) ==
    { "type", "message", "destination", "from-number" }
      \cup (IF a.data # None THEN { "data" } ELSE { })
      \cup (IF a.mime_type # None THEN { "mime-type" } ELSE { })
      \cup (IF a.size # None THEN { "size" } ELSE { })

SendPayloadKeys(a) ==
    { "type", "message", "destination", "from-number" }
      \cup (IF TruthyStr(a.data) THEN { "data" } ELSE { })
      \cup (IF TruthyStr(a.mime_type) THEN { "mime-type" } ELSE { })
      \cup (IF TruthyInt(a.size) THEN { "size" } ELSE { })

SendPayload(a) ==
    [ k \in SendPayloadKeys(a) |->
        CASE k = "type" -> a.message_type
          [] k = "message" -> a.message
          [] k = "destination" -> NormalizeDestination(a.destination)
          [] k = "from-number" -> a.from_number
          [] k = "data" -> a.data[1]
          [] k = "mime-type" -> a.mime_type[1]
          [] k = "size" -> IntToStr(a.size[1]) ]

\* {"Authorization": f"Bearer {self.auth_data['access_token']}"}
Headers(client) ==
    [Authorization |-> << "Bearer ", client.auth_data[1].access_token >>]

\* Subscripting self.auth_data when it is None.
NoneSubscript ==
    Exc("TypeError", "'NoneType' object is not subscriptable", None, None, None)

InvalidSession ==
    Exc("ValueError", "Invalid messagesession ID.", None, None, None)

\* What the call does between the return of check_token_expiry() and the
\* first suspension inside session.post(): it raises, or hands aiohttp a request.
send_message_request(client, a) ==
    IF SessionRejected(a)
    THEN [raised |-> Some(InvalidSession), request |-> None]
    ELSE IF client.auth_data = None
    THEN [raised |-> Some(NoneSubscript), request |-> None]
    ELSE [raised |-> None,
          request |-> Some([method |-> "POST",
                            url |-> SendUrl(client, a),
                            headers |-> Headers(client),
                            json |-> Some(SendPayload(a)),
                            params |-> None])]

----------------------------------------------------------------------------
(* get_messages, from the return of check_token_expiry() to session.get()  *)

\* user or '~'
UserOrSelf(user) == IF TruthyStr(user) THEN user[1] ELSE "~"

GetUrlUserFirst(client, a) ==
    IF TruthyStr(a.user)
    THEN << Fmt(client.base_url), "ns-api", "v2", "domains", a.domain,
            "users", a.user[1], "messagesessions" >>
    ELSE IF TruthySeq(a.messagesession)
    THEN << Fmt(client.base_url), "ns-api", "v2", "domains", a.domain,
            "users", UserOrSelf(a.user), "messagesessions",
            a.messagesession[1], "messages" >>
    ELSE << Fmt(client.base_url), "ns-api", "v2", "domains", a.domain,
            "messagesessions" >>

GetUrl(client, a) ==
    IF TruthySeq(a.messagesession)
    THEN << Fmt(client.base_url), "ns-api", "v2", "domains", a.domain,
            "users", UserOrSelf(a.user), "messagesessions",
            a.messagesession[1], "messages" >>
    ELSE IF TruthyStr(a.user)
    THEN << Fmt(client.base_url), "ns-api", "v2", "domains", a.domain,
            "users", a.user[1], "messagesessions" >>
    ELSE << Fmt(client.base_url), "ns-api", "v2", "domains", a.domain,
            "messagesessions" >>

\* params = {}; if limit: params["limit"] = str(limit)
GetParams(a) ==
    [ k \in (IF TruthyInt(a.limit) THEN { "limit" } ELSE { }) |->
        IntToStr(a.limit[1]) ]

get_messages_request(client, a) ==
    IF client.auth_data = None
    THEN [raised |-> Some(NoneSubscript), request |-> None]
    ELSE [raised |-> None,
          request |-> Some([method |-> "GET",
                            url |-> GetUrl(client, a),
                            headers |-> Headers(client),
                            json |-> None,
                            params |-> Some(GetParams(a))])]

----------------------------------------------------------------------------
(* The end of a call: the response, or the transport's exception           *)

\* What the network gives back: an exception class raised by the transport
\* ("" when a response arrived), and the response's status and body.
Reply(transport, status, body) ==
    [transport |-> transport, status |-> status, body |-> body]

NoReply == Reply("", 0, "")

\* The body of "async with session.post(...) as response:" in send_message.
\* Nothing encloses it, so an exception of the transport leaves the call as is.
send_message_result(r) ==
    IF r.transport # ""
    THEN Raised(TransportExc(r.transport))
    ELSE IF r.status = 200
    THEN Returned(JsonLoads(r.body))
    ELSE Raised(Exc("Exception", "Failed to send message: ",
                    None, Some(r.body), None))

\* The body of the try block of get_messages.
GetTryBlock(r) ==
    IF r.transport # ""
    THEN Raised(TransportExc(r.transport))
    ELSE IF r.status = 200
    THEN Returned(JsonLoads(r.body))
    ELSE Raised(Exc("Exception", "Failed to retrieve messages.",
                    Some(r.status), Some(r.body), None))

\* The two except clauses of get_messages, in the order they are written.
get_messages_result(r) ==
    LET t == GetTryBlock(r)
    IN  IF t.raised = None
        THEN t
        ELSE IF IsClientError(t.raised[1].type)
        THEN Raised(Exc("Exception",
                        "Network error occurred while retrieving messages.",
                        None, None, t.raised))
        ELSE Raised(Exc("Exception", "An unexpected error occurred.",
                        None, None, t.raised))

----------------------------------------------------------------------------
(* Inputs                                                                  *)

Rep(ch, n) == [i \in 1 .. n |-> ch]

SidValid == Rep("a", MinSessionLen)

SidLong == Rep("x", MinSessionLen + 8)

SidShort == Rep("a", MinSessionLen - 1)

SidDash == Rep("a", MinSessionLen - 1) \o << "-" >>

SidNewline == Rep("a", MinSessionLen) \o << "\n" >>

SidEmpty == << >>

Sessions ==
    { None, Some(SidEmpty), Some(SidShort), Some(SidDash), Some(SidValid),
      Some(SidLong), Some(SidNewline) }

Destinations ==
    { PyStr("15550111"),
      PyList(<< >>),
      PyList(<< PyStr("15550111"), PyStr("15550122") >>),
      PyTuple(<< PyStr("15550111"), PyStr("15550122") >>) }

OptText == { None, Some(""), Some("QUJD") }

OptMime == { None, Some(""), Some("image/png") }

OptInt == { None, Some(0), Some(2048) }

OptUser == { None, Some(""), Some("bob") }

Domains == { "~", "acme" }

ApiUrls == { "https://api1.example.com", "https://api2.example.com" }

\* The arguments of one call; a field the operation does not have keeps the
\* value given here.
Arguments(op, ms, dest, data, mime, size, dom, user, lim) ==
    [op |-> op, message_type |-> "sms", message |-> "hello",
     destination |-> dest, from_number |-> "15550100",
     messagesession |-> ms, data |-> data, mime_type |-> mime,
     size |-> size, domain |-> dom, user |-> user, limit |-> lim]

NoArgs ==
    Arguments("none", None, PyStr(""), None, None, None, "~", None, None)

\* Every session id with every destination, and every combination of the
\* optional fields with and without a session id.
SendArgs ==
    { Arguments("send", ms, d, None, None, None, "~", None, None) :
        ms \in Sessions, d \in Destinations }
      \cup
    { Arguments("send", ms, PyStr("15550111"), data, mt, sz, "~", None, None) :
        ms \in { None, Some(SidValid) }, data \in OptText, mt \in OptMime,
        sz \in OptInt }

GetArgs ==
    { Arguments("get", ms, PyStr(""), None, None, None, dom, u, None) :
        ms \in Sessions, dom \in Domains, u \in OptUser }
      \cup
    { Arguments("get", ms, PyStr(""), None, None, None, "~", u, lim) :
        ms \in { None, Some(SidLong) }, u \in { None, Some("bob") },
        lim \in OptInt }

\* The inputs of the runs in which calls overlap.
ConcSendArgs ==
    { Arguments("send", ms, PyStr("15550111"), None, None, None, "~", None,
                None) : ms \in { None, Some(SidDash) } }

ConcGetArgs ==
    { Arguments("get", ms, PyStr(""), None, None, None, "~", None, None) :
        ms \in { Some(SidValid) } }

Replies ==
    { Reply("", 200, "{\"id\": 7}"), Reply("", 403, "forbidden"),
      Reply("", 500, ""), Reply("ClientOSError", 0, ""),
      Reply("TimeoutError", 0, "") }

ConcReplies == { Reply("", 200, "[]"), Reply("ClientOSError", 0, "") }

----------------------------------------------------------------------------
(* NetsapiensAPI, the authentication collaborator                          *)

\* The TokenData the auth endpoint issues as its g-th token.
TokenData(g, url) == [access_token |-> g, api_url |-> url]

\* check_token_expiry() has to fetch a token before it can return one.
NeedsRefresh == token_data = None \/ expired

\* Token requests on their way, and whether the endpoint has a token left for
\* one more.
Pending == Cardinality({ c \in Calls : pc[c] = "refreshing" })

TokenLeft == generation + Pending < MaxTokens

\* The cached token runs out.
Expire ==
    /\ token_data # None
    /\ ~expired
    /\ TokenLeft
    /\ expired' = TRUE
    /\ UNCHANGED << token_data, generation, auth_data, base_url, pc, args,
                    fresh, request, response, result, trace >>

----------------------------------------------------------------------------
(* The coroutines                                                          *)

Init ==
    /\ token_data \in { None } \cup { Some(TokenData(1, u)) : u \in ApiUrls }
    /\ expired = FALSE
    /\ generation = IF token_data = None THEN 0 ELSE 1
    /\ auth_data = token_data
    /\ base_url = InitialBaseUrl(token_data)
    /\ pc = [c \in Calls |-> "idle"]
    /\ args = [c \in Calls |-> NoArgs]
    /\ fresh = [c \in Calls |-> None]
    /\ request = [c \in Calls |-> None]
    /\ response = [c \in Calls |-> NoReply]
    /\ result = [c \in Calls |-> NoResult]
    /\ trace = [c \in Calls |-> << >>]

\* Call c resumes with the TokenData td that check_token_expiry() returned,
\* and runs without suspending up to its raise or into session.post()/get():
\* the statements in between are synchronous, and entering
\* "async with aiohttp.ClientSession()" hands back the session object without
\* waiting for anything, so the event loop runs no other coroutine before the
\* URL and the headers are built.
Proceed(c, a, td, tr) ==
    LET client == RefreshedClient(td)
        out == IF a.op = "send"
               THEN send_message_request(client, a)
               ELSE get_messages_request(client, a)
    IN  /\ auth_data' = client.auth_data
        /\ base_url' = client.base_url
        /\ args' = [args EXCEPT ![c] = a]
        /\ fresh' = [fresh EXCEPT ![c] = Some(td)]
        /\ IF out.raised # None
           THEN /\ pc' = [pc EXCEPT ![c] = "done"]
                /\ result' = [result EXCEPT ![c] = Raised(out.raised[1])]
                /\ trace' = [trace EXCEPT ![c] = tr]
                /\ UNCHANGED request
           ELSE /\ pc' = [pc EXCEPT ![c] = "requesting"]
                /\ request' = [request EXCEPT ![c] = out.request]
                /\ trace' = [trace EXCEPT ![c] = Append(tr, out.request[1].method)]
                /\ UNCHANGED result
        /\ UNCHANGED response

\* The caller starts a call: its first statement awaits check_token_expiry(),
\* which returns the cached token at once or suspends on a token request.
Invoke(c, a) ==
    /\ pc[c] = "idle"
    /\ IF NeedsRefresh
       THEN /\ TokenLeft
            /\ pc' = [pc EXCEPT ![c] = "refreshing"]
            /\ args' = [args EXCEPT ![c] = a]
            /\ trace' = [trace EXCEPT ![c] = << "check_token_expiry", "token_request" >>]
            /\ UNCHANGED << token_data, expired, generation, auth_data,
                            base_url, fresh, request, response, result >>
       ELSE /\ Proceed(c, a, token_data[1], << "check_token_expiry" >>)
            /\ UNCHANGED << token_data, expired, generation >>

send_message(c, a) == a.op = "send" /\ Invoke(c, a)

get_messages(c, a) == a.op = "get" /\ Invoke(c, a)

\* The token request of call c is answered: the collaborator caches the new
\* token and check_token_expiry() returns it to the call.
TokenRefreshed(c) ==
    /\ pc[c] = "refreshing"
    /\ \E u \in ApiUrls :
         LET td == TokenData(generation + 1, u)
         IN  /\ token_data' = Some(td)
             /\ expired' = FALSE
             /\ generation' = generation + 1
             /\ Proceed(c, args[c], td, trace[c])

\* The network answers call c's request, or fails it.
Respond(c, r) ==
    /\ pc[c] = "requesting"
    /\ pc' = [pc EXCEPT ![c] = "done"]
    /\ response' = [response EXCEPT ![c] = r]
    /\ result' = [result EXCEPT ![c] =
                    IF args[c].op = "send"
                    THEN send_message_result(r)
                    ELSE get_messages_result(r)]
    /\ UNCHANGED << token_data, expired, generation, auth_data, base_url,
                    args, fresh, request, trace >>

\* The caller has taken the call's result; the slot is free again.
Return(c) ==
    /\ pc[c] = "done"
    /\ pc' = [pc EXCEPT ![c] = "idle"]
    /\ args' = [args EXCEPT ![c] = NoArgs]
    /\ fresh' = [fresh EXCEPT ![c] = None]
    /\ request' = [request EXCEPT ![c] = None]
    /\ response' = [response EXCEPT ![c] = NoReply]
    /\ result' = [result EXCEPT ![c] = NoResult]
    /\ trace' = [trace EXCEPT ![c] = << >>]
    /\ UNCHANGED << token_data, expired, generation, auth_data, base_url >>

NoneInFlight == \A c \in Calls : pc[c] = "idle"

\* Calls made one after the other, over the full range of arguments.
Next ==
    \/ \E c \in Calls, a \in SendArgs : NoneInFlight /\ send_message(c, a)
    \/ \E c \in Calls, a \in GetArgs : NoneInFlight /\ get_messages(c, a)
    \/ \E c \in Calls : TokenRefreshed(c)
    \/ \E c \in Calls, r \in Replies : Respond(c, r)
    \/ \E c \in Calls : Return(c)
    \/ Expire

Spec == Init /\ [][Next]_vars

\* Calls that overlap: a call may start while others are suspended.
NextConc ==
    \/ \E c \in Calls, a \in ConcSendArgs : send_message(c, a)
    \/ \E c \in Calls, a \in ConcGetArgs : get_messages(c, a)
    \/ \E c \in Calls : TokenRefreshed(c)
    \/ \E c \in Calls, r \in ConcReplies : Respond(c, r)
    \/ \E c \in Calls : Return(c)
    \/ Expire

SpecConc == Init /\ [][NextConc]_vars

----------------------------------------------------------------------------
(* Vocabulary of the properties                                            *)

\* The failure kind an exception object stands for.
Kind(e) ==
    CASE e.type = "ValueError" -> "InvalidArgument"
      [] e.type = "Exception" /\ e.text = "Failed to send message: " ->
            "RemoteRequestFailed"
      [] e.type = "Exception" /\ e.text = "Failed to retrieve messages." ->
            "RemoteRequestFailed"
      [] e.type = "Exception"
           /\ e.text = "Network error occurred while retrieving messages." ->
            "NetworkError"
      [] e.type = "Exception" /\ e.text = "An unexpected error occurred." ->
            "UnexpectedError"
      [] OTHER -> "Raw"

Count(tr, ev) == Cardinality({ i \in DOMAIN tr : tr[i] = ev })

\* Requests of any kind that call c had put on the network.
NetworkCalls(c) ==
    Count(trace[c], "token_request") + Count(trace[c], "POST")
      + Count(trace[c], "GET")

\* A session id was passed and does not match the pattern.
Malformed(a) == a.messagesession # None /\ ~ReMatch(a.messagesession[1])

FailedWith(c, kind) ==
    result[c].raised # None /\ Kind(result[c].raised[1]) = kind

\* Call c has a request on the network or answered.
Sent(c, op) == args[c].op = op /\ request[c] # None

ApiUrl(c) == fresh[c][1].api_url

----------------------------------------------------------------------------
\* C1: a send_message call whose session_id was passed and does not match the
\* pattern (the empty string included) puts nothing on the network, neither a
\* token request nor the POST, and ends with InvalidArgument.
C1_InvalidSessionNoNetwork ==
    \A c \in Calls :
        (args[c].op = "send" /\ Malformed(args[c])) =>
            /\ NetworkCalls(c) = 0
            /\ pc[c] = "done" => FailedWith(c, "InvalidArgument")

\* C2: when the server answers a send_message or get_messages call with a
\* status other than 200, the call fails with RemoteRequestFailed, and the
\* failure carries the status code and the body text.
C2_Non200IsRemoteRequestFailed ==
    \A c \in Calls :
        (pc[c] = "done" /\ request[c] # None /\ response[c].transport = ""
            /\ response[c].status # 200) =>
            /\ FailedWith(c, "RemoteRequestFailed")
            /\ result[c].raised[1].status = Some(response[c].status)
            /\ result[c].raised[1].body = Some(response[c].body)

\* C3: when the transport fails during the request of a send_message or
\* get_messages call, the call fails with NetworkError whose cause is the
\* transport's exception.
C3_TransportFailureIsNetworkError ==
    \A c \in Calls :
        (pc[c] = "done" /\ request[c] # None /\ response[c].transport # "") =>
            /\ FailedWith(c, "NetworkError")
            /\ result[c].raised[1].cause
                 = Some(TransportExc(response[c].transport))

\* C4: get_messages, like send_message, rejects a session_id that was passed
\* and does not match the pattern before anything is put on the network: it
\* never issues the GET for it.
C4_GetRejectsMalformedSession ==
    \A c \in Calls :
        (args[c].op = "get" /\ Malformed(args[c])) =>
            /\ Count(trace[c], "GET") = 0
            /\ pc[c] = "done" => FailedWith(c, "InvalidArgument")

\* The path get_messages selects, `has(o)` saying that an optional argument
\* counts as given.
GetPath(c, hasSession, hasUser) ==
    LET a == args[c]
    IN  IF hasSession
        THEN << ApiUrl(c), "ns-api", "v2", "domains", a.domain, "users",
                IF TruthyStr(a.user) THEN a.user[1] ELSE "~",
                "messagesessions", a.messagesession[1], "messages" >>
        ELSE IF hasUser
        THEN << ApiUrl(c), "ns-api", "v2", "domains", a.domain, "users",
                a.user[1], "messagesessions" >>
        ELSE << ApiUrl(c), "ns-api", "v2", "domains", a.domain,
                "messagesessions" >>

\* C5 as stated: get_messages takes the session path when session_id is
\* given, else the user path when user is given, else the domain path, for
\* every combination of given and absent session_id and user.
C5_PathByGiven ==
    \A c \in Calls :
        Sent(c, "get") =>
            request[c][1].url
              = GetPath(c, args[c].messagesession # None, args[c].user # None)

\* C5 amended: get_messages takes the session path when session_id is given
\* and not empty, else the user path when user is given and not empty, else
\* the domain path; an empty string counts as absent.
C5_PathByTruthiness ==
    \A c \in Calls :
        Sent(c, "get") =>
            request[c][1].url
              = GetPath(c, TruthySeq(args[c].messagesession),
                        TruthyStr(args[c].user))

C5_Witness ==
    \E c \in Calls :
        /\ Sent(c, "get")
        /\ args[c].messagesession = Some(SidLong)
        /\ args[c].user = Some("bob")
        /\ args[c].domain = "acme"
        /\ request[c][1].url
             = << ApiUrl(c), "ns-api", "v2", "domains", "acme", "users",
                  "bob", "messagesessions", SidLong, "messages" >>

\* C6: send_message targets the session path exactly when a valid session_id
\* is given and the default path exactly when no session_id is given.
C6_SendPathBySession ==
    \A c \in Calls :
        Sent(c, "send") =>
            LET a == args[c]
                url == request[c][1].url
                default == << ApiUrl(c), "ns-api", "v2", "domains", "~",
                              "users", "~", "messages" >>
            IN  /\ (url = default) <=> (a.messagesession = None)
                /\ (url # default) <=>
                     /\ a.messagesession # None
                     /\ ReMatch(a.messagesession[1])
                     /\ url = << ApiUrl(c), "ns-api", "v2", "domains", "~",
                                 "users", "~", "messagesessions",
                                 a.messagesession[1], "messages" >>

\* The destination field of the body call c posted.
PostedDestination(c) == request[c][1].json[1]["destination"]

\* C7 as stated: the destination field of every send_message body is a
\* non-empty array of strings; a string becomes the one-element array of it,
\* a sequence of any type an array of its elements in their order.
C7_DestinationArrayOfStrings ==
    \A c \in Calls :
        Sent(c, "send") =>
            LET d == args[c].destination
                out == PostedDestination(c)
            IN  /\ out.kind = "list"
                /\ Len(out.val) > 0
                /\ \A i \in 1 .. Len(out.val) : out.val[i].kind = "str"
                /\ d.kind = "str" => out.val = << d >>
                /\ d.kind # "str" => out.val = d.val

\* C7 amended: the destination field is an array; a string becomes the
\* one-element array of it, a list is passed on with its elements in their
\* order (an empty list as an empty array), and any other value, a tuple
\* included, becomes the single element of a one-element array.
C7_DestinationNormalized ==
    \A c \in Calls :
        Sent(c, "send") =>
            LET d == args[c].destination
                out == PostedDestination(c)
            IN  /\ out.kind = "list"
                /\ d.kind = "str" =>
                     /\ Len(out.val) = 1
                     /\ out.val[1].kind = "str"
                     /\ out.val[1].val = d.val
                /\ d.kind = "list" =>
                     /\ Len(out.val) = Len(d.val)
                     /\ \A i \in 1 .. Len(d.val) : out.val[i] = d.val[i]
                /\ d.kind \notin { "str", "list" } =>
                     /\ Len(out.val) = 1
                     /\ out.val[1] = d

C7_Witness ==
    \E c \in Calls :
        /\ Sent(c, "send")
        /\ args[c].destination = PyStr("15550111")
        /\ PostedDestination(c) = PyList(<< PyStr("15550111") >>)

\* Whether an optional field is in the request of call c, and with the value
\* the caller passed, when `present` says that it should be there.
FieldAsPassed(dict, key, present, value) ==
    /\ (key \in DOMAIN dict) <=> present
    /\ present => dict[key] = value

\* C8 as stated: data, mime_type and size in the send_message body and limit
\* in the get_messages query are absent when not supplied and present when
\* supplied, whatever the supplied value (0 and "" included), size and limit
\* as strings.
C8_OptionalPresentWhenSupplied ==
    \A c \in Calls :
        /\ Sent(c, "send") =>
             LET a == args[c]
                 body == request[c][1].json[1]
             IN  /\ FieldAsPassed(body, "data", a.data # None,
                                  IF a.data # None THEN a.data[1] ELSE "")
                 /\ FieldAsPassed(body, "mime-type", a.mime_type # None,
                                  IF a.mime_type # None THEN a.mime_type[1]
                                  ELSE "")
                 /\ FieldAsPassed(body, "size", a.size # None,
                                  IF a.size # None THEN IntToStr(a.size[1])
                                  ELSE << >>)
        /\ Sent(c, "get") =>
             LET a == args[c]
             IN  FieldAsPassed(request[c][1].params[1], "limit",
                               a.limit # None,
                               IF a.limit # None THEN IntToStr(a.limit[1])
                               ELSE << >>)

\* C8 amended: each optional field is present exactly when it is supplied
\* with a value other than 0 and "", size and limit as strings; a field that
\* is not supplied, or supplied as 0 or "", is absent.
C8_OptionalPresentWhenTruthy ==
    \A c \in Calls :
        /\ Sent(c, "send") =>
             LET a == args[c]
                 body == request[c][1].json[1]
             IN  /\ FieldAsPassed(body, "data", a.data \notin { None, Some("") },
                                  IF a.data # None THEN a.data[1] ELSE "")
                 /\ FieldAsPassed(body, "mime-type",
                                  a.mime_type \notin { None, Some("") },
                                  IF a.mime_type # None THEN a.mime_type[1]
                                  ELSE "")
                 /\ FieldAsPassed(body, "size", a.size \notin { None, Some(0) },
                                  IF a.size # None THEN IntToStr(a.size[1])
                                  ELSE << >>)
                 /\ DOMAIN body \ { "data", "mime-type", "size" }
                      = { "type", "message", "destination", "from-number" }
        /\ Sent(c, "get") =>
             LET a == args[c]
             IN  FieldAsPassed(request[c][1].params[1], "limit",
                               a.limit \notin { None, Some(0) },
                               IF a.limit # None THEN IntToStr(a.limit[1])
                               ELSE << >>)

C8_Witness ==
    \E c \in Calls :
        /\ Sent(c, "send")
        /\ args[c].data = Some("QUJD")
        /\ args[c].mime_type = Some("")
        /\ args[c].size = Some(2048)
        /\ DOMAIN request[c][1].json[1]
             = { "type", "message", "destination", "from-number", "data",
                 "size" }
        /\ request[c][1].json[1]["size"] = << "2", "0", "4", "8" >>

\* The HTTP method of an operation.
MethodOf(op) == IF op = "send" THEN "POST" ELSE "GET"

\* C9: a call that passes argument validation invokes check_token_expiry
\* once, before its request exists, and issues one request, of its
\* operation's method, whose authority and bearer token are the api_url and
\* access_token that invocation returned; nothing is repeated after a
\* failure, and the call ends by returning the parsed body or by failing.
C9_OneRefreshThenOneRequest ==
    \A c \in Calls :
        LET m == MethodOf(args[c].op)
            tr == trace[c]
        IN  /\ Count(tr, "check_token_expiry") <= 1
            /\ Count(tr, "POST") + Count(tr, "GET") <= 1
            /\ request[c] # None =>
                 /\ fresh[c] # None
                 /\ tr \in { << "check_token_expiry", m >>,
                             << "check_token_expiry", "token_request", m >> }
                 /\ request[c][1].method = m
                 /\ request[c][1].url[1] = fresh[c][1].api_url
                 /\ request[c][1].headers.Authorization
                      = << "Bearer ", fresh[c][1].access_token >>
            /\ (pc[c] = "done" /\ ~FailedWith(c, "InvalidArgument")) =>
                 /\ request[c] # None
                 /\ (result[c].returned = None) # (result[c].raised = None)
                 /\ result[c].returned # None =>
                      /\ response[c].status = 200
                      /\ result[c].returned = Some(JsonLoads(response[c].body))

C9_Witness ==
    \E c \in Calls :
        /\ pc[c] = "done"
        /\ args[c].op = "get"
        /\ trace[c] = << "check_token_expiry", "token_request", "GET" >>
        /\ result[c].returned = Some(<< >>)
        /\ \E d \in Calls : d # c /\ pc[d] = "done" /\ result[d].raised # None
                               /\ trace[d] = << "check_token_expiry", "POST" >>

\* C10: while calls overlap, the request of each carries the api_url and the
\* access_token that its own check_token_expiry returned, also after another
\* call has overwritten self.auth_data and self.base_url.
C10_OverlappingCallsUseOwnToken ==
    \A c, d \in Calls :
        (c # d /\ request[c] # None /\ pc[d] # "idle") =>
            /\ request[c][1].url[1] = fresh[c][1].api_url
            /\ request[c][1].headers.Authorization[2]
                 = fresh[c][1].access_token
            /\ fresh[d] # None =>
                 \/ fresh[c] = fresh[d]
                 \/ request[d] = None
                 \/ request[c][1].headers # request[d][1].headers

C10_Witness ==
    \E c, d \in Calls :
        /\ c # d
        /\ pc[c] = "requesting"
        /\ pc[d] = "requesting"
        /\ fresh[c] # fresh[d]
        /\ auth_data = fresh[d]
        /\ base_url # Some(fresh[c][1].api_url)
        /\ request[c][1].headers.Authorization[2] = fresh[c][1].access_token
        /\ request[c][1].url[1] = fresh[c][1].api_url

====
